---- MODULE Spec2Model ----
(***************************************************************************)
(* Delta-sync engine of PasswordPal_Backend: GET /sync (pullChanges) and   *)
(* POST /sync (pushRecord per batch item) over the vault_records table.    *)
(* Every await on the store is one atomic step; requests of different      *)
(* connections interleave between those steps.                             *)
(***************************************************************************)
EXTENDS Integers, Sequences, FiniteSets, TLC

(* ------------------------------ bounds -------------------------------- *)
\* work served in one run: one unit per push item, per pull, per rejected request
MaxWork == 2

(* --------------------------- program constants ------------------------ *)
\* Joi: limit max(500), default(100); offset default(0); epoch default of since
LimitCap == 500
DefaultLimit == 100
DefaultOffset == 0
Epoch == 0
\* HTTP statuses the handlers send
HttpOk == 200
HttpBadRequest == 400
HttpServerError == 500

Procs == {"c1", "c2"}
Users == {"u1", "u2"}
\* the sessions a connection may carry (verifySession): c1 is a device of u1,
\* c2 a second device of u1 or a device of u2
Sessions == [c1 |-> {"u1"}, c2 |-> {"u1", "u2"}]
Ids == {"r1", "r2"}
\* the versions a client may claim to know: 0 (new), every version a row can
\* have reached within MaxWork, and one no row has reached
ClientVersions == 0..MaxWork
\* the opaque payloads (encrypted_data, nonce) the k-th item of a connection's
\* batch carries: every item of the two connections has its own
Payloads == [c1 |-> <<<<"AAA", "n1">>, <<"BBB", "n2">>>>,
             c2 |-> <<<<"CCC", "n3">>, <<"DDD", "n4">>>>]
Payload(p, k) == Payloads[p][((k - 1) % 2) + 1]
RecordTypes == {"credential", "folder", "tag"}
Null == [null |-> TRUE]
\* error codes of the store: none, Postgres unique_violation, anything else
NoError == "none"
UniqueViolation == "23505"
StoreDown == "08006"

VARIABLES
    store,      \* vault_records: function from the ids that have a row to the row
    now,        \* the clock that stamps updated_at and server_time
    pc,         \* where each connection's handler stands
    user,       \* req.user.id of the request a connection serves
    todo,       \* records.length of the push batch being served
    batch,      \* the items of the batch the loop has taken so far, in order
    results,    \* the results array of the push handler
    query,      \* validated req.query of the pull being served
    count,      \* count read by pullChanges
    resp,       \* the response sent (status and body)
    accepted,   \* history: accepted pushes (created or success) per id
    seen,       \* history: the stored version each item's write met (0: no row)
    work,       \* work units started
    deleting    \* the arguments of the deleteVaultRecord call a connection serves

vars == <<store, now, pc, user, todo, batch, results, query, count, resp,
          accepted, seen, work, deleting>>

Version(tbl, id) == IF id \in DOMAIN tbl THEN tbl[id].version ELSE 0

(* ------------------------- validators/schemas.js ---------------------- *)
\* A request item is a function from the fields it carries to their values.
\* The items a client may put at position k: optional fields left out or given,
\* a negative version, a missing encrypted_data.
RawItems(p, k) ==
    {[id |-> i, encrypted_data |-> Payload(p, k)[1], nonce |-> Payload(p, k)[2],
      client_known_version |-> v] : i \in Ids, v \in {-1} \cup ClientVersions}
    \cup
    {[id |-> i, encrypted_data |-> Payload(p, k)[1], nonce |-> Payload(p, k)[2],
      client_known_version |-> v, is_deleted |-> TRUE, record_type |-> "folder"] :
        i \in Ids, v \in ClientVersions}
    \cup
    {[id |-> "r1", nonce |-> Payload(p, k)[2], client_known_version |-> 0]}

\* a schema without the minimum of client_known_version
ItemErrorsAnyVersion(raw) ==
    {f \in {"id", "encrypted_data", "nonce", "client_known_version"} : f \notin DOMAIN raw}
    \cup (IF "record_type" \in DOMAIN raw /\ raw.record_type \notin RecordTypes
          THEN {"record_type"} ELSE {})

\* pushRecordItemSchema: the fields of a raw item that fail validation
ItemErrors(raw) ==
    {f \in {"id", "encrypted_data", "nonce", "client_known_version"} : f \notin DOMAIN raw}
    \cup (IF "client_known_version" \in DOMAIN raw /\ raw.client_known_version < 0
          THEN {"client_known_version"} ELSE {})
    \cup (IF "record_type" \in DOMAIN raw /\ raw.record_type \notin RecordTypes
          THEN {"record_type"} ELSE {})

\* pushRecordItemSchema: the validated value, defaults filled in
pushRecordItemSchema(raw) ==
    [id |-> raw.id,
     encrypted_data |-> raw.encrypted_data,
     nonce |-> raw.nonce,
     client_known_version |-> raw.client_known_version,
     is_deleted |-> IF "is_deleted" \in DOMAIN raw THEN raw.is_deleted ELSE FALSE,
     record_type |-> IF "record_type" \in DOMAIN raw THEN raw.record_type ELSE "credential"]

\* the bodies a client may send: 0 .. n items
RECURSIVE RawBatches(_, _)
RawBatches(p, n) ==
    IF n = 0 THEN {<<>>}
    ELSE LET shorter == RawBatches(p, n - 1)
         IN shorter \cup {Append(b, raw) : b \in {c \in shorter : Len(c) = n - 1},
                                           raw \in RawItems(p, n)}

\* pushSyncBodySchema under abortEarly:false: every failing path of the body
pushSyncBodySchema(raw) ==
    IF Len(raw) < 1 THEN {<<0, "records">>}
    ELSE UNION {{<<i, f>> : f \in ItemErrors(raw[i])} : i \in 1..Len(raw)}

\* what validateRequest leaves in req.body.records[k-1] of a body it passes
ValidItems(p, k) ==
    {pushRecordItemSchema(raw) : raw \in {r \in RawItems(p, k) : ItemErrors(r) = {}}}

(* --------------------------- the store -------------------------------- *)
\* a row that is stamped with the epoch
newRecordEpochStamp(item, user_id, t) ==
    [id |-> item.id,
     user_id |-> user_id,
     encrypted_data |-> item.encrypted_data,
     nonce |-> item.nonce,
     record_type |-> item.record_type,
     version |-> 1,
     is_deleted |-> item.is_deleted,
     client_record_id |-> Null,
     created_at |-> t,
     updated_at |-> Epoch]

\* a row that starts at the version the client sent
newRecordClientVersion(item, user_id, t) ==
    [id |-> item.id,
     user_id |-> user_id,
     encrypted_data |-> item.encrypted_data,
     nonce |-> item.nonce,
     record_type |-> item.record_type,
     version |-> item.client_known_version,
     is_deleted |-> item.is_deleted,
     client_record_id |-> Null,
     created_at |-> t,
     updated_at |-> t]

\* a row that keeps the nonce out and stores the payload twice
newRecordNoNonce(item, user_id, t) ==
    [id |-> item.id,
     user_id |-> user_id,
     encrypted_data |-> item.encrypted_data,
     nonce |-> item.encrypted_data,
     record_type |-> item.record_type,
     version |-> 1,
     is_deleted |-> item.is_deleted,
     client_record_id |-> Null,
     created_at |-> t,
     updated_at |-> t]

\* insert([newRecord]): the row as stored, created_at/updated_at by the store
newRecord(item, user_id, t) ==
    [id |-> item.id,
     user_id |-> user_id,
     encrypted_data |-> item.encrypted_data,
     nonce |-> item.nonce,
     record_type |-> item.record_type,
     version |-> 1,
     is_deleted |-> item.is_deleted,
     client_record_id |-> Null,
     created_at |-> t,
     updated_at |-> t]

\* update_vault_record(p_id, p_encrypted_data, p_nonce, p_client_known_version):
\* one atomic UPDATE ... WHERE id = p_id AND version = p_client_known_version,
\* which stamps the row with an updated_at later than the one it had
update_vault_record(tbl, t, p_id, p_encrypted_data, p_nonce, p_client_known_version) ==
    IF p_id \in DOMAIN tbl /\ tbl[p_id].version = p_client_known_version
    THEN [tbl |-> [tbl EXCEPT ![p_id].encrypted_data = p_encrypted_data,
                              ![p_id].nonce = p_nonce,
                              ![p_id].version = p_client_known_version + 1,
                              ![p_id].updated_at =
                                  IF t > tbl[p_id].updated_at THEN t
                                  ELSE tbl[p_id].updated_at + 1],
          data |-> [success |-> TRUE,
                    new_version |-> p_client_known_version + 1,
                    server_current_version |-> p_client_known_version + 1]]
    ELSE [tbl |-> tbl,
          data |-> [success |-> FALSE,
                    new_version |-> 0,
                    server_current_version |->
                        IF p_id \in DOMAIN tbl THEN tbl[p_id].version ELSE 0]]

\* a conflict read that reports the version before the row's last write
fetchServerRecordStaleVersion(tbl, recordId) ==
    IF recordId \in DOMAIN tbl
    THEN [id |-> tbl[recordId].id,
          encrypted_data |-> tbl[recordId].encrypted_data,
          nonce |-> tbl[recordId].nonce,
          version |-> tbl[recordId].version - 1,
          is_deleted |-> tbl[recordId].is_deleted,
          record_type |-> tbl[recordId].record_type,
          updated_at |-> tbl[recordId].updated_at]
    ELSE Null

\* a conflict read that makes up a row when there is none
fetchServerRecordBlank(tbl, recordId) ==
    IF recordId \in DOMAIN tbl
    THEN [id |-> tbl[recordId].id,
          encrypted_data |-> tbl[recordId].encrypted_data,
          nonce |-> tbl[recordId].nonce,
          version |-> tbl[recordId].version,
          is_deleted |-> tbl[recordId].is_deleted,
          record_type |-> tbl[recordId].record_type,
          updated_at |-> tbl[recordId].updated_at]
    ELSE [id |-> recordId, encrypted_data |-> "", nonce |-> "", version |-> 0,
          is_deleted |-> FALSE, record_type |-> "credential", updated_at |-> Epoch]

\* a conflict read whose select list leaves the payload columns out
fetchServerRecordNoPayload(tbl, recordId) ==
    IF recordId \in DOMAIN tbl
    THEN [id |-> tbl[recordId].id,
          encrypted_data |-> "undefined",
          nonce |-> "undefined",
          version |-> tbl[recordId].version,
          is_deleted |-> tbl[recordId].is_deleted,
          record_type |-> tbl[recordId].record_type,
          updated_at |-> tbl[recordId].updated_at]
    ELSE Null

\* fetchServerRecord: the selected columns of the row, or null
fetchServerRecord(tbl, recordId) ==
    IF recordId \in DOMAIN tbl
    THEN [id |-> tbl[recordId].id,
          encrypted_data |-> tbl[recordId].encrypted_data,
          nonce |-> tbl[recordId].nonce,
          version |-> tbl[recordId].version,
          is_deleted |-> tbl[recordId].is_deleted,
          record_type |-> tbl[recordId].record_type,
          updated_at |-> tbl[recordId].updated_at]
    ELSE Null

\* the outcomes of one store call: it answers (FALSE) or it fails (TRUE)
StoreUp == {FALSE}
StoreFlaky == BOOLEAN

\* the instants a reading of the clock may return: the instant of the last
\* reading, or a later one (instants between two readings are left out)
Instants == {now, now + 1}

(* ------------------------ pushRecord results -------------------------- *)
CreatedResult(data) == [id |-> data.id, status |-> "created", record |-> data]

\* a success result without server_current_version
SuccessResultVersionOnly(id, data) ==
    [id |-> id, status |-> "success",
     record |-> [id |-> id, version |-> data.new_version]]

\* pushRecord, if (data.success): {id, status: 'success', record: {...}}
SuccessResult(id, data) ==
    [id |-> id, status |-> "success",
     record |-> [id |-> id, version |-> data.new_version,
                 server_current_version |-> data.server_current_version]]

ConflictResult(id, serverRecord) == [id |-> id, status |-> "conflict", record |-> serverRecord]

\* an error result that loses the item's id
ErrorResultNoId(id) ==
    [id |-> "undefined", status |-> "error", record |-> Null,
     message |-> "Failed to process record"]

\* catch (recordError): results.push({ id: item.id, status: 'error', ... })
ErrorResult(id) ==
    [id |-> id, status |-> "error", record |-> Null, message |-> "Failed to process record"]

\* a branch that also inserts for client_known_version 1
IsInsertUpToOne(item) == item.client_known_version <= 1

\* a branch that takes every item for a new record
IsInsertAlways(item) == item.client_known_version >= 0

\* pushRecord's branch on client_known_version
IsInsert(item) == item.client_known_version = 0

\* a test of the RPC answer that takes any answer for an applied update
RpcAppliedAnyAnswer(data) == data.success \/ data.server_current_version >= 0

\* pushRecord's test of the RPC answer
RpcApplied(data) == data.success

\* an insert that overwrites the row of a taken id
InsertUpsert(tbl, row, err) ==
    IF err THEN [error |-> StoreDown, tbl |-> tbl, data |-> Null]
    ELSE [error |-> NoError,
          tbl |-> [i \in DOMAIN tbl \cup {row.id} |-> IF i = row.id THEN row ELSE tbl[i]],
          data |-> row]

\* an insert that empties the table first
InsertReplacing(tbl, row, err) ==
    IF err THEN [error |-> StoreDown, tbl |-> tbl, data |-> Null]
    ELSE IF row.id \in DOMAIN tbl THEN [error |-> UniqueViolation, tbl |-> tbl, data |-> Null]
    ELSE [error |-> NoError, tbl |-> (row.id :> row), data |-> row]

\* an insert that reports a failure after the row went in
InsertKeptOnFailure(tbl, row, err) ==
    IF row.id \in DOMAIN tbl
    THEN [error |-> IF err THEN StoreDown ELSE UniqueViolation, tbl |-> tbl, data |-> Null]
    ELSE [error |-> IF err THEN StoreDown ELSE NoError,
          tbl |-> (row.id :> row) @@ tbl,
          data |-> IF err THEN Null ELSE row]

\* .insert([newRecord]).select().single(): the row is added unless the store
\* fails or the id is taken (unique violation)
Insert(tbl, row, err) ==
    IF err THEN [error |-> StoreDown, tbl |-> tbl, data |-> Null]
    ELSE IF row.id \in DOMAIN tbl THEN [error |-> UniqueViolation, tbl |-> tbl, data |-> Null]
    ELSE [error |-> NoError, tbl |-> (row.id :> row) @@ tbl, data |-> row]

\* a test for the foreign-key violation code instead
IsForeignKeyViolation(error) == error = "23503"

\* error.code === '23505'
IsDuplicateKey(error) == error = UniqueViolation

\* a call that passes the version before the one the client knows
RpcParamsPreviousVersion(item) ==
    [p_id |-> item.id,
     p_encrypted_data |-> item.encrypted_data,
     p_nonce |-> item.nonce,
     p_client_known_version |-> item.client_known_version - 1]

\* a call that passes nonce and encrypted_data in each other's place
RpcParamsSwapped(item) ==
    [p_id |-> item.id,
     p_encrypted_data |-> item.nonce,
     p_nonce |-> item.encrypted_data,
     p_client_known_version |-> item.client_known_version]

\* the arguments of the update_vault_record call
RpcParams(item) ==
    [p_id |-> item.id,
     p_encrypted_data |-> item.encrypted_data,
     p_nonce |-> item.nonce,
     p_client_known_version |-> item.client_known_version]

\* a pushRecord whose update also writes the item's record_type to the row
pushRecordWithType(tbl, t, item, user_id, err) ==
    IF IsInsert(item)
    THEN LET ins == Insert(tbl, newRecord(item, user_id, t), err)
         IN IF ins.error # NoError
            THEN IF IsDuplicateKey(ins.error)
                 THEN [tbl |-> ins.tbl, next |-> "fetch", result |-> Null]
                 ELSE [tbl |-> ins.tbl, next |-> "done", result |-> ErrorResult(item.id)]
            ELSE [tbl |-> ins.tbl, next |-> "done", result |-> CreatedResult(ins.data)]
    ELSE IF err
         THEN [tbl |-> tbl, next |-> "done", result |-> ErrorResult(item.id)]
         ELSE LET a == RpcParams(item)
                  r == update_vault_record(tbl, t, a.p_id, a.p_encrypted_data, a.p_nonce,
                                           a.p_client_known_version)
              IN IF RpcApplied(r.data)
                 THEN [tbl |-> [r.tbl EXCEPT ![item.id].record_type = item.record_type],
                       next |-> "done",
                       result |-> SuccessResult(item.id, r.data)]
                 ELSE [tbl |-> r.tbl, next |-> "fetch", result |-> Null]

\* a pushRecord that answers conflict without reading the row
pushRecordNoRead(tbl, t, item, user_id, err) ==
    IF IsInsert(item)
    THEN LET ins == Insert(tbl, newRecord(item, user_id, t), err)
         IN IF ins.error # NoError
            THEN IF IsDuplicateKey(ins.error)
                 THEN [tbl |-> ins.tbl, next |-> "done",
                       result |-> ConflictResult(item.id, Null)]
                 ELSE [tbl |-> ins.tbl, next |-> "done", result |-> ErrorResult(item.id)]
            ELSE [tbl |-> ins.tbl, next |-> "done", result |-> CreatedResult(ins.data)]
    ELSE IF err
         THEN [tbl |-> tbl, next |-> "done", result |-> ErrorResult(item.id)]
         ELSE LET a == RpcParams(item)
                  r == update_vault_record(tbl, t, a.p_id, a.p_encrypted_data, a.p_nonce,
                                           a.p_client_known_version)
              IN IF RpcApplied(r.data)
                 THEN [tbl |-> r.tbl, next |-> "done",
                       result |-> SuccessResult(item.id, r.data)]
                 ELSE [tbl |-> r.tbl, next |-> "done",
                       result |-> ConflictResult(item.id, Null)]

\* pushRecord up to its first await: the insert, or the RPC. next = "fetch" when
\* the conflict branch still has fetchServerRecord to await.
pushRecord(tbl, t, item, user_id, err) ==
    IF IsInsert(item)
    THEN LET ins == Insert(tbl, newRecord(item, user_id, t), err)
         IN IF ins.error # NoError
            THEN IF IsDuplicateKey(ins.error)
                 THEN [tbl |-> ins.tbl, next |-> "fetch", result |-> Null]
                 ELSE [tbl |-> ins.tbl, next |-> "done", result |-> ErrorResult(item.id)]
            ELSE [tbl |-> ins.tbl, next |-> "done", result |-> CreatedResult(ins.data)]
    ELSE IF err
         THEN [tbl |-> tbl, next |-> "done", result |-> ErrorResult(item.id)]
         ELSE LET a == RpcParams(item)
                  r == update_vault_record(tbl, t, a.p_id, a.p_encrypted_data, a.p_nonce,
                                           a.p_client_known_version)
              IN IF RpcApplied(r.data)
                 THEN [tbl |-> r.tbl, next |-> "done",
                       result |-> SuccessResult(item.id, r.data)]
                 ELSE [tbl |-> r.tbl, next |-> "fetch", result |-> Null]

\* pushRecord after the conflict read
pushRecordConflict(tbl, id, err) ==
    IF err THEN ErrorResult(id) ELSE ConflictResult(id, fetchServerRecord(tbl, id))

Accepted(result) == result.status \in {"created", "success"}

(* --------------------------- pullChanges ------------------------------ *)
RawQueries ==
    {[since |-> s, limit |-> l, offset |-> o] :
        s \in Epoch..(MaxWork - 1), l \in (0..Cardinality(Ids)) \cup {LimitCap + 1},
        o \in (-1)..(Cardinality(Ids) - 1)}
    \cup {<<>>}

\* pullSyncQuerySchema: the failing fields of a raw query
QueryErrors(raw) ==
    (IF "limit" \in DOMAIN raw /\ (raw.limit < 1 \/ raw.limit > LimitCap) THEN {"limit"} ELSE {})
    \cup (IF "offset" \in DOMAIN raw /\ raw.offset < 0 THEN {"offset"} ELSE {})

\* pullSyncQuerySchema: the validated query, defaults filled in
pullSyncQuerySchema(raw) ==
    [since |-> IF "since" \in DOMAIN raw THEN raw.since ELSE Epoch,
     limit |-> IF "limit" \in DOMAIN raw THEN raw.limit ELSE DefaultLimit,
     offset |-> IF "offset" \in DOMAIN raw THEN raw.offset ELSE DefaultOffset]

\* a filter without the owner
MatchingAnyOwner(tbl, userId, sinceTimestamp) ==
    {tbl[i] : i \in {j \in DOMAIN tbl : tbl[j].updated_at > sinceTimestamp}}

\* a filter that hides soft-deleted rows
MatchingLive(tbl, userId, sinceTimestamp) ==
    {tbl[i] : i \in {j \in DOMAIN tbl : tbl[j].user_id = userId
                                        /\ tbl[j].updated_at > sinceTimestamp
                                        /\ ~tbl[j].is_deleted}}

\* a filter that lets updated_at equal to since through
MatchingInclusive(tbl, userId, sinceTimestamp) ==
    {tbl[i] : i \in {j \in DOMAIN tbl : tbl[j].user_id = userId
                                        /\ tbl[j].updated_at >= sinceTimestamp}}

\* .eq("user_id", userId).gt("updated_at", sinceTimestamp)
Matching(tbl, userId, sinceTimestamp) ==
    {tbl[i] : i \in {j \in DOMAIN tbl : tbl[j].user_id = userId
                                        /\ tbl[j].updated_at > sinceTimestamp}}

\* .order("updated_at", {ascending: true}): any order of the rows that ascends
\* in updated_at; rows of equal updated_at come in an order the store picks
Ordered(rows) ==
    {f \in [1..Cardinality(rows) -> rows] :
        /\ \A i, j \in 1..Cardinality(rows) : i # j => f[i] # f[j]
        /\ \A i, j \in 1..Cardinality(rows) : i < j => f[i].updated_at <= f[j].updated_at}

Min(a, b) == IF a < b THEN a ELSE b

\* a range that starts one row late
RangeFromNext(seq, from, to) == SubSeq(seq, from + 2, Min(to + 1, Len(seq)))

\* .range(offset, offset + limit - 1): rows offset .. offset+limit-1, 0-based
Range(seq, from, to) == SubSeq(seq, from + 1, Min(to + 1, Len(seq)))

\* a body whose has_more also holds at the last row
PullBodyInclusive(records, total_count, offset, t) ==
    [records |-> records,
     total_count |-> total_count,
     has_more |-> offset + Len(records) <= total_count,
     server_time |-> t]

\* the body of the GET /sync response
PullBody(records, total_count, offset, t) ==
    [records |-> records,
     total_count |-> total_count,
     has_more |-> offset + Len(records) < total_count,
     server_time |-> t]

(* ------------------------------ Init ---------------------------------- *)
NoQuery == [since |-> Epoch, limit |-> DefaultLimit, offset |-> DefaultOffset]
NoResp == [status |-> 0]

\* the table as the server finds it: empty, or holding the row an earlier
\* POST /sync of u1 created (client_known_version 0, defaults for the rest)
SeedItem ==
    [id |-> "r1", encrypted_data |-> "SSS", nonce |-> "n0", client_known_version |-> 0,
     is_deleted |-> FALSE, record_type |-> "credential"]
Seeds == {<<>>, pushRecord(<<>>, 1, SeedItem, "u1", FALSE).tbl}

Init ==
    /\ store \in Seeds
    /\ now = 1
    /\ pc = [p \in Procs |-> "idle"]
    /\ user = [p \in Procs |-> "u1"]
    /\ todo = [p \in Procs |-> 0]
    /\ batch = [p \in Procs |-> <<>>]
    /\ results = [p \in Procs |-> <<>>]
    /\ query = [p \in Procs |-> NoQuery]
    /\ count = [p \in Procs |-> 0]
    /\ resp = [p \in Procs |-> NoResp]
    /\ accepted = [i \in Ids |-> IF i \in DOMAIN store THEN 1 ELSE 0]
    /\ seen = [p \in Procs |-> <<>>]
    /\ work = 0
    /\ deleting = [p \in Procs |-> Null]

(* --------------------------- POST /sync ------------------------------- *)
\* validateRequest(pushSyncBodySchema, 'body') rejects the body: 400 with details
PushRejected(p) ==
    /\ pc[p] = "idle" /\ work < MaxWork
    /\ \E u \in Sessions[p], raw \in RawBatches(p, MaxWork - work) :
         /\ pushSyncBodySchema(raw) # {}
         /\ user' = [user EXCEPT ![p] = u]
         /\ todo' = [todo EXCEPT ![p] = Len(raw)]
         /\ resp' = [resp EXCEPT ![p] = [status |-> HttpBadRequest,
                                         error |-> "Validation failed",
                                         details |-> pushSyncBodySchema(raw)]]
    /\ pc' = [pc EXCEPT ![p] = "sent"]
    /\ work' = work + 1
    /\ UNCHANGED <<store, now, batch, results, query, count, accepted, seen, deleting>>

\* validateRequest passes the body on: records is a list of valid
\* items; each is drawn when the for loop reaches it
PushStart(p) ==
    /\ pc[p] = "idle"
    /\ \E u \in Sessions[p], n \in 1..(MaxWork - work) :
         /\ user' = [user EXCEPT ![p] = u]
         /\ todo' = [todo EXCEPT ![p] = n]
         /\ work' = work + n
    /\ pc' = [pc EXCEPT ![p] = "push_loop"]
    /\ UNCHANGED <<store, now, batch, results, query, count, resp, accepted, seen, deleting>>

\* one iteration of the for loop up to pushRecord's first await
PushItem(p, fails) ==
    /\ pc[p] = "push_loop" /\ Len(results[p]) < todo[p]
    /\ \E item \in ValidItems(p, Len(batch[p]) + 1), err \in fails, t \in Instants :
         LET r == pushRecord(store, t, item, user[p], err) IN
         /\ batch' = [batch EXCEPT ![p] = Append(@, item)]
         /\ seen' = [seen EXCEPT ![p] = Append(@, Version(store, item.id))]
         /\ store' = r.tbl
         /\ now' = IF r.tbl # store THEN r.tbl[item.id].updated_at ELSE now
         /\ IF r.next = "fetch"
            THEN /\ pc' = [pc EXCEPT ![p] = "push_fetch"]
                 /\ UNCHANGED <<results, accepted>>
            ELSE /\ results' = [results EXCEPT ![p] = Append(@, r.result)]
                 /\ accepted' = IF Accepted(r.result)
                                THEN [accepted EXCEPT ![item.id] = @ + 1]
                                ELSE accepted
                 /\ UNCHANGED pc
    /\ UNCHANGED <<user, todo, query, count, resp, work, deleting>>

\* the conflict branch: fetchServerRecord, then the result is pushed
PushFetch(p, fails) ==
    /\ pc[p] = "push_fetch"
    /\ \E err \in fails :
         /\ results' = [results EXCEPT ![p] =
                Append(@, pushRecordConflict(store, batch[p][Len(batch[p])].id, err))]
    /\ pc' = [pc EXCEPT ![p] = "push_loop"]
    /\ UNCHANGED <<store, now, user, todo, batch, query, count, resp, accepted, seen, work, deleting>>

\* after the loop: res.status(200).json({results, server_time}); results[p] is
\* the body's results. The connection is then free for the next request.
PushRespond(p) ==
    /\ pc[p] = "push_loop" /\ Len(results[p]) = todo[p]
    /\ pc' = [pc EXCEPT ![p] = "idle"]
    /\ user' = [user EXCEPT ![p] = "u1"]
    /\ todo' = [todo EXCEPT ![p] = 0]
    /\ batch' = [batch EXCEPT ![p] = <<>>]
    /\ results' = [results EXCEPT ![p] = <<>>]
    /\ seen' = [seen EXCEPT ![p] = <<>>]
    /\ UNCHANGED <<store, now, query, count, resp, accepted, work, deleting>>

(* ---------------------------- GET /sync ------------------------------- *)
\* validateRequest(pullSyncQuerySchema, 'query') rejects the query
PullRejected(p) ==
    /\ pc[p] = "idle" /\ work < MaxWork
    /\ \E u \in Sessions[p], raw \in RawQueries :
         /\ QueryErrors(raw) # {}
         /\ user' = [user EXCEPT ![p] = u]
         /\ resp' = [resp EXCEPT ![p] = [status |-> HttpBadRequest,
                                         error |-> "Validation failed",
                                         details |-> QueryErrors(raw)]]
    /\ pc' = [pc EXCEPT ![p] = "sent"]
    /\ work' = work + 1
    /\ UNCHANGED <<store, now, todo, batch, results, query, count, accepted, seen, deleting>>

PullStart(p) ==
    /\ pc[p] = "idle" /\ work < MaxWork
    /\ \E u \in Sessions[p], raw \in RawQueries :
         /\ QueryErrors(raw) = {}
         /\ user' = [user EXCEPT ![p] = u]
         /\ query' = [query EXCEPT ![p] = pullSyncQuerySchema(raw)]
    /\ pc' = [pc EXCEPT ![p] = "pull_count"]
    /\ work' = work + 1
    /\ UNCHANGED <<store, now, todo, batch, results, count, resp, accepted, seen, deleting>>

\* a failure answer that still carries a (partial) result
PullFailedPartial ==
    [status |-> HttpServerError, error |-> "Failed to pull vault changes",
     records |-> <<>>, total_count |-> 0]

\* GET /sync, catch (err): res.status(500).json({error})
PullFailed == [status |-> HttpServerError, error |-> "Failed to pull vault changes"]

\* a count read that stamps the rows it counted
PullCountTouching(p, fails) ==
    /\ pc[p] = "pull_count"
    /\ \E err \in fails :
         /\ IF err
            THEN /\ resp' = [resp EXCEPT ![p] = PullFailed]
                 /\ pc' = [pc EXCEPT ![p] = "sent"]
                 /\ UNCHANGED <<count, store>>
            ELSE /\ count' = [count EXCEPT ![p] =
                        Cardinality(Matching(store, user[p], query[p].since))]
                 /\ pc' = [pc EXCEPT ![p] = "pull_page"]
                 /\ store' = [i \in DOMAIN store |->
                                IF store[i] \in Matching(store, user[p], query[p].since)
                                THEN [store[i] EXCEPT !.updated_at = now + 1]
                                ELSE store[i]]
                 /\ UNCHANGED resp
    /\ UNCHANGED <<now, user, todo, batch, results, query, accepted, seen, work, deleting>>

\* pullChanges, first await: the exact count of the matching rows
PullCount(p, fails) ==
    /\ pc[p] = "pull_count"
    /\ \E err \in fails :
         /\ IF err
            THEN /\ resp' = [resp EXCEPT ![p] = PullFailed]
                 /\ pc' = [pc EXCEPT ![p] = "sent"]
                 /\ UNCHANGED count
            ELSE /\ count' = [count EXCEPT ![p] =
                        Cardinality(Matching(store, user[p], query[p].since))]
                 /\ pc' = [pc EXCEPT ![p] = "pull_page"]
                 /\ UNCHANGED resp
    /\ UNCHANGED <<store, now, user, todo, batch, results, query, accepted, seen, work, deleting>>

\* pullChanges, second await: the page; then the handler responds
PullPage(p, fails) ==
    /\ pc[p] = "pull_page"
    /\ \E err \in fails :
         /\ IF err
            THEN /\ resp' = [resp EXCEPT ![p] = PullFailed]
                 /\ UNCHANGED now
            ELSE \E data \in Ordered(Matching(store, user[p], query[p].since)),
                    t \in Instants :
                   /\ resp' = [resp EXCEPT ![p] =
                         [status |-> HttpOk] @@
                         PullBody(Range(data, query[p].offset,
                                        query[p].offset + query[p].limit - 1),
                                  count[p], query[p].offset, t)]
                   /\ now' = t
    /\ pc' = [pc EXCEPT ![p] = "sent"]
    /\ UNCHANGED <<store, user, todo, batch, results, query, count, accepted, seen, work, deleting>>

(* ------------------------------ common -------------------------------- *)
\* the response is out; the connection is free for the next request
Finish(p) ==
    /\ pc[p] = "sent"
    /\ pc' = [pc EXCEPT ![p] = "idle"]
    /\ user' = [user EXCEPT ![p] = "u1"]
    /\ todo' = [todo EXCEPT ![p] = 0]
    /\ batch' = [batch EXCEPT ![p] = <<>>]
    /\ results' = [results EXCEPT ![p] = <<>>]
    /\ query' = [query EXCEPT ![p] = NoQuery]
    /\ count' = [count EXCEPT ![p] = 0]
    /\ resp' = [resp EXCEPT ![p] = NoResp]
    /\ deleting' = [deleting EXCEPT ![p] = Null]
    /\ UNCHANGED <<store, now, accepted, seen, work>>

Serve(conns, fails) ==
    \/ \E p \in conns : PushRejected(p)
    \/ \E p \in conns : PushStart(p)
    \/ \E p \in conns : PushItem(p, fails)
    \/ \E p \in conns : PushFetch(p, fails)
    \/ \E p \in conns : PushRespond(p)
    \/ \E p \in conns : PullRejected(p)
    \/ \E p \in conns : PullStart(p)
    \/ \E p \in conns : PullCount(p, fails)
    \/ \E p \in conns : PullPage(p, fails)
    \/ \E p \in conns : Finish(p)

\* the store answers every call; the two connections interleave
Next == Serve(Procs, StoreUp)

Spec == Init /\ [][Next]_vars

\* one connection against a store whose calls may fail
NextFlaky == Serve({"c2"}, StoreFlaky)

SpecFlaky == Init /\ [][NextFlaky]_vars

(* ----------------------------- readers -------------------------------- *)
\* a table of two rows of u1 that no request writes: the seeded r1 and an r2
\* that a later POST /sync of u1 created, stamped at the same instant as r1 or
\* at the next
ReadSeedItem ==
    [id |-> "r2", encrypted_data |-> "TTT", nonce |-> "n9", client_known_version |-> 0,
     is_deleted |-> FALSE, record_type |-> "credential"]
ReadSeeds ==
    {pushRecord(tbl, t, ReadSeedItem, "u1", FALSE).tbl :
        tbl \in Seeds \ {<<>>}, t \in {1, 2}}

InitRead ==
    /\ store \in ReadSeeds
    /\ now = 2
    /\ pc = [p \in Procs |-> "idle"]
    /\ user = [p \in Procs |-> "u1"]
    /\ todo = [p \in Procs |-> 0]
    /\ batch = [p \in Procs |-> <<>>]
    /\ results = [p \in Procs |-> <<>>]
    /\ query = [p \in Procs |-> NoQuery]
    /\ count = [p \in Procs |-> 0]
    /\ resp = [p \in Procs |-> NoResp]
    /\ accepted = [i \in Ids |-> Version(store, i)]
    /\ seen = [p \in Procs |-> <<>>]
    /\ work = 0
    /\ deleting = [p \in Procs |-> Null]

\* GET /sync requests only, the store answers every call
NextRead ==
    \/ \E p \in Procs : PullRejected(p)
    \/ \E p \in Procs : PullStart(p)
    \/ \E p \in Procs : PullCount(p, StoreUp)
    \/ \E p \in Procs : PullPage(p, StoreUp)
    \/ \E p \in Procs : Finish(p)

SpecRead == InitRead /\ [][NextRead]_vars

(* ----------------- models/vaultModel.js: deleteVaultRecord ------------ *)
\* the version column after a write of JSON null (the JSON of NaN)
NullVersion == -1

\* the store's answers to a write of null into the version column: it keeps
\* the null (a nullable column) or refuses the write (a NOT NULL column)
NullWrites == {"kept", "refused"}
NoRows == "PGRST116"
NotNullViolation == "23502"

\* .select("encrypted_data, nonce").eq("id", id).single()
SelectPayload(tbl, id) ==
    IF id \in DOMAIN tbl
    THEN [error |-> NoError,
          data |-> [encrypted_data |-> tbl[id].encrypted_data, nonce |-> tbl[id].nonce]]
    ELSE [error |-> NoRows, data |-> Null]

\* existing.version + 1: a number when the selected columns hold a version,
\* NaN when they do not
NextVersion(existing) ==
    IF "version" \in DOMAIN existing THEN existing.version + 1 ELSE NullVersion

\* .update({is_deleted: true, version, updated_at}).eq("id", id).select().single()
SoftDelete(tbl, t, id, version, answer) ==
    IF id \notin DOMAIN tbl THEN [error |-> NoRows, tbl |-> tbl]
    ELSE IF version = NullVersion /\ answer = "refused"
    THEN [error |-> NotNullViolation, tbl |-> tbl]
    ELSE [error |-> NoError,
          tbl |-> [tbl EXCEPT ![id].is_deleted = TRUE,
                              ![id].version = version,
                              ![id].updated_at = t]]

\* deleteVaultRecord({id, clientKnownVersion}) is called
DeleteStart(p) ==
    /\ pc[p] = "idle" /\ work < MaxWork
    /\ \E i \in Ids, v \in ClientVersions :
         deleting' = [deleting EXCEPT ![p] =
             [id |-> i, clientKnownVersion |-> v, existing |-> Null, outcome |-> "pending"]]
    /\ pc' = [pc EXCEPT ![p] = "delete_read"]
    /\ work' = work + 1
    /\ UNCHANGED <<store, now, user, todo, batch, results, query, count, resp, accepted, seen>>

\* first await: the read of the row's payload; fetchError is thrown
DeleteRead(p) ==
    /\ pc[p] = "delete_read"
    /\ LET r == SelectPayload(store, deleting[p].id) IN
         IF r.error # NoError
         THEN /\ deleting' = [deleting EXCEPT ![p].outcome = "thrown"]
              /\ pc' = [pc EXCEPT ![p] = "sent"]
         ELSE /\ deleting' = [deleting EXCEPT ![p].existing = r.data]
              /\ pc' = [pc EXCEPT ![p] = "delete_update"]
    /\ UNCHANGED <<store, now, user, todo, batch, results, query, count, resp, accepted,
                   seen, work>>

\* second await: the direct update; its error is thrown, else the row returned
DeleteUpdate(p) ==
    /\ pc[p] = "delete_update"
    /\ \E answer \in NullWrites, t \in Instants :
         LET r == SoftDelete(store, t, deleting[p].id,
                             NextVersion(deleting[p].existing), answer) IN
         /\ store' = r.tbl
         /\ now' = IF r.error = NoError THEN t ELSE now
         /\ deleting' = [deleting EXCEPT ![p].outcome =
                            IF r.error = NoError THEN "returned" ELSE "thrown"]
    /\ pc' = [pc EXCEPT ![p] = "sent"]
    /\ UNCHANGED <<user, todo, batch, results, query, count, resp, accepted, seen, work>>

\* one connection that serves /sync requests and deleteVaultRecord calls
NextDelete ==
    \/ Serve({"c2"}, StoreUp)
    \/ \E p \in {"c2"} : DeleteStart(p)
    \/ \E p \in {"c2"} : DeleteRead(p)
    \/ \E p \in {"c2"} : DeleteUpdate(p)

SpecDelete == Init /\ [][NextDelete]_vars

(* ====================================================================== *)
(* Properties                                                             *)
(* ====================================================================== *)
Last(seq) == seq[Len(seq)]

\* connection p has just taken a new item from its batch (PushItem step)
TookItem(p) == Len(batch'[p]) = Len(batch[p]) + 1

\* connection p has just pushed a result onto its results array
GotResult(p) == Len(results'[p]) = Len(results[p]) + 1

\* connection p has just finished the conflict read (PushFetch step)
DidFetch(p) == pc[p] = "push_fetch" /\ pc'[p] = "push_loop"

\* the k-th item of p's batch has its result
Settled(p, k) == k \in 1..Len(results[p])

\* C1: two in-flight pushes of different connections that carry the same id
\* with the same client_known_version v >= 1 never both get success; and when
\* the stored version was v as one of the two writes arrived, exactly one gets
\* success and the other conflict.
C1_OneWinner ==
    \A i \in 1..Len(results["c1"]), j \in 1..Len(results["c2"]) :
        LET a == batch["c1"][i]
            b == batch["c2"][j]
            ra == results["c1"][i]
            rb == results["c2"][j]
        IN (a.id = b.id /\ a.client_known_version = b.client_known_version
              /\ a.client_known_version >= 1)
           => /\ ~(ra.status = "success" /\ rb.status = "success")
              /\ (seen["c1"][i] = a.client_known_version
                    \/ seen["c2"][j] = b.client_known_version)
                 => {ra.status, rb.status} = {"success", "conflict"}

C1_Witness ==
    /\ Len(results["c1"]) = 1 /\ Len(results["c2"]) = 1
    /\ batch["c1"][1].id = batch["c2"][1].id
    /\ batch["c1"][1].client_known_version = 1
    /\ batch["c2"][1].client_known_version = 1
    /\ seen["c1"][1] = 1 /\ seen["c2"][1] = 2
    /\ results["c1"][1].status = "success"
    /\ results["c2"][1].status = "conflict"

\* C2: per id the accepted results carry versions 1, 2, 3, ...: the stored
\* version always equals the number of accepted pushes of the id; the push that
\* is accepted N-th is created iff N = 1, carried client_known_version N-1 and
\* reports version N; the stored version never decreases and moves only with
\* an accepted push.
C2_AcceptStep ==
    \A id \in Ids :
        /\ Version(store', id) >= Version(store, id)
        /\ accepted'[id] \in {accepted[id], accepted[id] + 1}
        /\ (Version(store', id) # Version(store, id)) => accepted'[id] = accepted[id] + 1
        /\ accepted'[id] = accepted[id] + 1 =>
              \E p \in Procs :
                 /\ TookItem(p) /\ GotResult(p)
                 /\ Last(batch'[p]).id = id
                 /\ Last(batch'[p]).client_known_version = accepted[id]
                 /\ Last(results'[p]).id = id
                 /\ Last(results'[p]).status =
                        (IF accepted[id] = 0 THEN "created" ELSE "success")
                 /\ Last(results'[p]).record.version = accepted'[id]

C2_MonotonicVersion ==
    /\ [](\A id \in Ids : accepted[id] = Version(store, id))
    /\ [][C2_AcceptStep]_vars

\* the third accepted push of r1 has arrived: it reports version 3
C2_Witness ==
    \E p \in Procs :
        /\ Len(results[p]) >= 1
        /\ Last(results[p]).status = "success"
        /\ Last(results[p]).record.version = 3
        /\ accepted[Last(results[p]).id] = 3
        /\ store[Last(results[p]).id].version = 3

\* C3: an item with client_known_version >= 1 that differs from the stored
\* version of an existing row leaves the table as it is and goes to the
\* conflict read; the conflict read leaves the table as it is and the result
\* is conflict with the row's current version, encrypted_data, nonce and
\* is_deleted.
C3_ConflictStep ==
    \A p \in Procs :
        /\ (/\ TookItem(p)
            /\ Last(batch'[p]).client_known_version >= 1
            /\ Last(batch'[p]).id \in DOMAIN store
            /\ store[Last(batch'[p]).id].version # Last(batch'[p]).client_known_version)
           => /\ store' = store
              /\ pc'[p] = "push_fetch"
              /\ results'[p] = results[p]
        /\ (/\ DidFetch(p)
            /\ Last(batch[p]).client_known_version >= 1
            /\ Last(batch[p]).id \in DOMAIN store)
           => /\ store' = store
              /\ GotResult(p)
              /\ Last(results'[p]).id = Last(batch[p]).id
              /\ Last(results'[p]).status = "conflict"
              /\ Last(results'[p]).record.version = store[Last(batch[p]).id].version
              /\ Last(results'[p]).record.encrypted_data =
                    store[Last(batch[p]).id].encrypted_data
              /\ Last(results'[p]).record.nonce = store[Last(batch[p]).id].nonce
              /\ Last(results'[p]).record.is_deleted = store[Last(batch[p]).id].is_deleted

C3_ConflictShape == [][C3_ConflictStep]_vars

\* r1 stands at version 2; an item with client_known_version 1 got conflict
\* with version 2 attached
C3_Witness ==
    \E p \in Procs :
        /\ Len(results[p]) >= 1
        /\ Last(batch[p]).id = "r1"
        /\ Last(batch[p]).client_known_version = 1
        /\ Last(results[p]).status = "conflict"
        /\ Last(results[p]).record # Null
        /\ Last(results[p]).record.version = 2
        /\ store["r1"].version = 2

\* C4: an item whose client_known_version equals the stored version of an
\* existing row gets success with version client_known_version + 1, and the
\* row then holds the item's encrypted_data and nonce at that version.
C4_SuccessStep ==
    \A p \in Procs :
        (/\ TookItem(p)
         /\ Last(batch'[p]).id \in DOMAIN store
         /\ store[Last(batch'[p]).id].version = Last(batch'[p]).client_known_version)
        => LET item == Last(batch'[p]) IN
           /\ GotResult(p)
           /\ Last(results'[p]).id = item.id
           /\ Last(results'[p]).status = "success"
           /\ Last(results'[p]).record.version = item.client_known_version + 1
           /\ store'[item.id].version = item.client_known_version + 1
           /\ store'[item.id].encrypted_data = item.encrypted_data
           /\ store'[item.id].nonce = item.nonce

C4_Success == [][C4_SuccessStep]_vars

\* the seeded row r1 took the first item of c1: version 2, payload AAA/n1
C4_Witness ==
    /\ Len(results["c1"]) = 1
    /\ results["c1"][1].status = "success"
    /\ batch["c1"][1].id = "r1"
    /\ batch["c1"][1].client_known_version = 1
    /\ store["r1"].version = 2
    /\ store["r1"].encrypted_data = "AAA"
    /\ store["r1"].nonce = "n1"

\* C5: (the claim as stated) an item with is_deleted = true and a matching
\* client_known_version v on a live row gets success with version v + 1; while
\* the row stands at that version it is deleted, and a pull of the owner
\* that returns the row at that version returns it with is_deleted = true.
C5_TombstonePropagation ==
    \A p \in Procs : \A k \in 1..Len(results[p]) :
        (batch[p][k].is_deleted /\ batch[p][k].client_known_version >= 1
           /\ seen[p][k] = batch[p][k].client_known_version)
        => /\ results[p][k].status = "success"
           /\ results[p][k].record.version = batch[p][k].client_known_version + 1
           /\ store[batch[p][k].id].version = results[p][k].record.version
                 => store[batch[p][k].id].is_deleted
           /\ \A q \in Procs :
                 (pc[q] = "sent" /\ resp[q].status = HttpOk)
                 => \A n \in 1..Len(resp[q].records) :
                       (resp[q].records[n].id = batch[p][k].id
                          /\ resp[q].records[n].version = results[p][k].record.version)
                       => resp[q].records[n].is_deleted

\* what a created result and the inserted row must be for item of user u
CreatedAsPushed(p, item) ==
    /\ GotResult(p)
    /\ Last(results'[p]).id = item.id
    /\ Last(results'[p]).status = "created"
    /\ Last(results'[p]).record.version = 1
    /\ item.id \in DOMAIN store'
    /\ store'[item.id].version = 1
    /\ store'[item.id].user_id = user[p]
    /\ store'[item.id].encrypted_data = item.encrypted_data
    /\ store'[item.id].nonce = item.nonce

\* C6 (as stated): an item with client_known_version 0 is created whenever the
\* calling owner has no row of that id.
C6_CreatedStepPerOwner ==
    \A p \in Procs :
        (/\ TookItem(p)
         /\ Last(batch'[p]).client_known_version = 0
         /\ \/ Last(batch'[p]).id \notin DOMAIN store
            \/ store[Last(batch'[p]).id].user_id # user[p])
        => CreatedAsPushed(p, Last(batch'[p]))

C6_CreatedStep ==
    \A p \in Procs :
        (/\ TookItem(p)
         /\ Last(batch'[p]).client_known_version = 0
         /\ Last(batch'[p]).id \notin DOMAIN store)
        => CreatedAsPushed(p, Last(batch'[p]))

C7_CollisionStep ==
    \A p \in Procs :
        /\ (/\ TookItem(p)
            /\ Last(batch'[p]).client_known_version = 0
            /\ Last(batch'[p]).id \in DOMAIN store)
           => /\ store' = store
              /\ pc'[p] = "push_fetch"
              /\ results'[p] = results[p]
        /\ (DidFetch(p) /\ Last(batch[p]).client_known_version = 0)
           => /\ store' = store
              /\ GotResult(p)
              /\ Last(results'[p]).id = Last(batch[p]).id
              /\ Last(results'[p]).status = "conflict"
              /\ Last(batch[p]).id \in DOMAIN store
              /\ Last(results'[p]).record.version = store[Last(batch[p]).id].version
              /\ Last(results'[p]).record.encrypted_data =
                    store[Last(batch[p]).id].encrypted_data
              /\ Last(results'[p]).record.nonce = store[Last(batch[p]).id].nonce

C7_IdCollision == [][C7_CollisionStep]_vars

\* a create of the seeded id r1 got conflict with the seeded row attached
C7_Witness ==
    \E p \in Procs :
        /\ Len(results[p]) = 1
        /\ batch[p][1].id = "r1"
        /\ batch[p][1].client_known_version = 0
        /\ results[p][1].status = "conflict"
        /\ results[p][1].record # Null
        /\ results[p][1].record.encrypted_data = "SSS"
        /\ store["r1"].encrypted_data = "SSS"
        /\ store["r1"].version = 1

\* C8: when a pull of owner u reads its page with offset 0 and a limit that
\* covers all rows of u, every row that a push of u created after the pull's
\* since and that still stands at version 1 is in the returned records with the pushed encrypted_data and nonce and
\* version 1.
C8_RoundTripStep ==
    \A q \in Procs :
        (pc[q] = "pull_page" /\ pc'[q] = "sent" /\ resp'[q].status = HttpOk
           /\ query[q].offset = 0
           /\ query[q].limit >= Cardinality({i \in DOMAIN store : store[i].user_id = user[q]}))
        => \A p \in Procs : \A k \in 1..Len(results[p]) :
              (/\ results[p][k].status = "created"
               /\ user[p] = user[q]
               /\ query[q].since < results[p][k].record.updated_at
               /\ store[batch[p][k].id].version = 1)
              => \E n \in 1..Len(resp'[q].records) :
                    /\ resp'[q].records[n].id = batch[p][k].id
                    /\ resp'[q].records[n].encrypted_data = batch[p][k].encrypted_data
                    /\ resp'[q].records[n].nonce = batch[p][k].nonce
                    /\ resp'[q].records[n].version = 1

C8_RoundTrip == [][C8_RoundTripStep]_vars

\* c1 created r2 with AAA/n1; the pull of c2 for the same owner returned it
C8_Witness ==
    /\ Len(results["c1"]) = 1
    /\ results["c1"][1].status = "created"
    /\ batch["c1"][1].id = "r2"
    /\ pc["c2"] = "sent" /\ resp["c2"].status = HttpOk
    /\ user["c2"] = "u1"
    /\ query["c2"].since < results["c1"][1].record.updated_at
    /\ \E n \in 1..Len(resp["c2"].records) :
          /\ resp["c2"].records[n].id = "r2"
          /\ resp["c2"].records[n].encrypted_data = "AAA"
          /\ resp["c2"].records[n].nonce = "n1"
          /\ resp["c2"].records[n].version = 1

\* C9: in a push the results follow the items taken, one result per item in
\* input order and under the item's id, whatever the outcome of each item (a
\* failing store call makes the item's result error and the loop goes on);
\* the response is sent only when every item of the request has its result.
C9_Aligned ==
    \A p \in Procs :
        pc[p] \in {"push_loop", "push_fetch"} =>
            /\ Len(batch[p]) <= todo[p]
            /\ Len(results[p]) = Len(batch[p]) - (IF pc[p] = "push_fetch" THEN 1 ELSE 0)
            /\ \A k \in 1..Len(results[p]) :
                  /\ results[p][k].id = batch[p][k].id
                  /\ results[p][k].status \in {"created", "success", "conflict", "error"}

C9_RespondStep ==
    \A p \in Procs :
        (pc[p] = "push_loop" /\ pc'[p] = "idle") => Len(results[p]) = todo[p]

C9_OneResultPerItem == []C9_Aligned /\ [][C9_RespondStep]_vars

\* a push of two items is complete: the first item failed, the second went on
C9_Witness ==
    \E p \in Procs :
        /\ pc[p] = "push_loop"
        /\ todo[p] = 2
        /\ Len(results[p]) = 2
        /\ results[p][1].status = "error"
        /\ results[p][2].status # "error"

C10_TakenWellFormed ==
    \A p \in Procs : \A k \in 1..Len(batch[p]) :
        /\ batch[p][k].client_known_version >= 0
        /\ batch[p][k].record_type \in RecordTypes
        /\ batch[p][k].is_deleted \in BOOLEAN

C10_RejectStep ==
    \A p \in Procs :
        (resp'[p].status = HttpBadRequest /\ resp[p].status # HttpBadRequest) =>
            /\ store' = store
            /\ results'[p] = <<>>
            /\ batch'[p] = <<>>
            /\ resp'[p].details # {}

C11_ErrorStep ==
    \A p \in Procs :
        /\ (GotResult(p) /\ Last(results'[p]).status = "error")
           => /\ store' = store
              /\ pc'[p] = "push_loop"
              /\ resp'[p] = resp[p]
              /\ SubSeq(results'[p], 1, Len(results[p])) = results[p]
              /\ Last(results'[p]).id = Last(batch'[p]).id
        /\ (pc[p] = "push_loop" /\ pc'[p] = "idle")
           => \A k \in 1..todo[p] : k \in DOMAIN results[p]

C11_Applied ==
    \A p \in Procs :
        /\ \A k \in 1..Len(results[p]) :
              Accepted(results[p][k]) =>
                  /\ batch[p][k].id \in DOMAIN store
                  /\ store[batch[p][k].id].version >= results[p][k].record.version
        /\ resp[p].status = HttpServerError => todo[p] = 0

C11_PartialFailure == []C11_Applied /\ [][C11_ErrorStep]_vars

\* the first item created a row, the second item's store call failed, the row
\* of the first is still there
C11_Witness ==
    \E p \in Procs :
        /\ Len(results[p]) = 2
        /\ results[p][1].status = "created"
        /\ results[p][2].status = "error"
        /\ batch[p][1].id \in DOMAIN store
        /\ store[batch[p][1].id].encrypted_data = batch[p][1].encrypted_data

\* the ids of the rows of owner u changed after since, read off the table
ChangedIds(u, since) ==
    {i \in DOMAIN store : store[i].user_id = u /\ store[i].updated_at > since}

\* connection q has just read its page and answered 200
GotPage(q) == pc[q] = "pull_page" /\ pc'[q] = "sent" /\ resp'[q].status = HttpOk

\* C12: the records of a pull are the rows offset .. offset+limit-1 of the
\* owner's rows with updated_at strictly after since, taken in ascending
\* updated_at: each is such a row as stored, none twice, ascending, each at a
\* position its updated_at allows, never more than limit, and as many as the
\* rows left from offset on.
C12_SliceStep ==
    \A q \in Procs :
        GotPage(q) =>
            LET recs == resp'[q].records
                own == ChangedIds(user[q], query[q].since)
                left == Cardinality(own) - query[q].offset
            IN /\ Len(recs) <= query[q].limit
               /\ Len(recs) = IF left < 0 THEN 0
                              ELSE IF left < query[q].limit THEN left ELSE query[q].limit
               /\ \A n \in 1..Len(recs) :
                     /\ recs[n].id \in own
                     /\ recs[n] = store[recs[n].id]
                     /\ recs[n].updated_at > query[q].since
                     /\ Cardinality({i \in own : store[i].updated_at < recs[n].updated_at})
                            <= query[q].offset + n - 1
                     /\ Cardinality({i \in own : store[i].updated_at <= recs[n].updated_at})
                            >= query[q].offset + n
                     /\ \A m \in 1..(n - 1) :
                           /\ recs[m].id # recs[n].id
                           /\ recs[m].updated_at <= recs[n].updated_at

C12_Slice == [][C12_SliceStep]_vars

\* a pull with since 1 left out the owner's row stamped 1 and returned the
\* one stamped later
C12_Witness ==
    \E q \in Procs :
        /\ pc[q] = "sent" /\ resp[q].status = HttpOk
        /\ query[q].since = 1
        /\ \E i \in DOMAIN store :
              store[i].user_id = user[q] /\ store[i].updated_at = query[q].since
        /\ Len(resp[q].records) = 1
        /\ resp[q].records[1].updated_at > query[q].since

\* C13: the count read of a pull yields the number of the owner's rows changed
\* after since, whatever limit and offset are; when no write has changed that
\* number by the time of the page read, total_count is that number, has_more is
\* offset + len(records) < total_count, it holds exactly when changed rows
\* remain beyond offset + limit, and an offset at or past the end yields no
\* records and has_more false.
C13_CountStep ==
    \A q \in Procs :
        LET n == Cardinality(ChangedIds(user[q], query[q].since)) IN
        /\ (pc[q] = "pull_count" /\ pc'[q] = "pull_page") => count'[q] = n
        /\ (GotPage(q) /\ count[q] = n)
           => /\ resp'[q].total_count = n
              /\ resp'[q].has_more = (query[q].offset + Len(resp'[q].records) < n)
              /\ resp'[q].has_more = (query[q].offset + query[q].limit < n)
              /\ query[q].offset >= n =>
                    resp'[q].records = <<>> /\ resp'[q].has_more = FALSE

C13_TotalCount == [][C13_CountStep]_vars

\* a first page of one record out of two: has_more
C13_Witness ==
    \E q \in Procs :
        /\ pc[q] = "sent" /\ resp[q].status = HttpOk
        /\ query[q].offset = 0
        /\ resp[q].total_count = 2
        /\ Len(resp[q].records) = 1
        /\ resp[q].has_more
        /\ Cardinality(ChangedIds(user[q], query[q].since)) = 2

\* the ids on the page a connection was answered with
PageIds(p) == {resp[p].records[n].id : n \in 1..Len(resp[p].records)}

\* C14: with no write going on, two pulls of one owner with the same since and
\* limit, the first at offset 0 answered has_more, the second at offset limit
\* answered no more, return pages that share no id and that together hold
\* exactly the owner's rows changed after since, also when rows share one
\* updated_at.
C14_PaginationConsistency ==
    \A p, q \in Procs :
        (/\ p # q
         /\ pc[p] = "sent" /\ resp[p].status = HttpOk
         /\ pc[q] = "sent" /\ resp[q].status = HttpOk
         /\ user[p] = user[q]
         /\ query[p].since = query[q].since
         /\ query[p].limit = query[q].limit
         /\ query[p].offset = 0
         /\ query[q].offset = query[p].limit
         /\ resp[p].has_more
         /\ ~resp[q].has_more)
        => /\ PageIds(p) \cap PageIds(q) = {}
           /\ PageIds(p) \cup PageIds(q) = ChangedIds(user[p], query[p].since)

\* C15: soft-deleted rows are counted and returned like live ones: the count
\* read yields the live plus the soft-deleted rows of the owner changed after
\* since, and a page from offset 0 whose limit covers them all holds every
\* soft-deleted one of them, marked is_deleted.
C15_TombstoneStep ==
    \A q \in Procs :
        LET own == ChangedIds(user[q], query[q].since)
            dead == {i \in own : store[i].is_deleted}
        IN /\ (pc[q] = "pull_count" /\ pc'[q] = "pull_page")
              => count'[q] = Cardinality(own \ dead) + Cardinality(dead)
           /\ (GotPage(q) /\ query[q].offset = 0 /\ query[q].limit >= Cardinality(own))
              => \A i \in dead : \E n \in 1..Len(resp'[q].records) :
                    /\ resp'[q].records[n].id = i
                    /\ resp'[q].records[n].is_deleted

C15_TombstonesPulled == [][C15_TombstoneStep]_vars

\* a pull answered with a soft-deleted record, counted in total_count
C15_Witness ==
    \E q \in Procs :
        /\ pc[q] = "sent" /\ resp[q].status = HttpOk
        /\ resp[q].total_count = Len(resp[q].records)
        /\ \E n \in 1..Len(resp[q].records) : resp[q].records[n].is_deleted

\* C16: a pull of owner A never counts and never returns a row of another
\* owner: the count read leaves out every changed row that is not A's, and
\* every record of the page is owned by A, whatever since, limit and offset are.
C16_OwnerStep ==
    \A q \in Procs :
        LET changed == {i \in DOMAIN store : store[i].updated_at > query[q].since}
            foreign == {i \in DOMAIN store : store[i].user_id # user[q]}
        IN /\ (pc[q] = "pull_count" /\ pc'[q] = "pull_page")
              => count'[q] = Cardinality(changed \ foreign)
           /\ GotPage(q)
              => \A n \in 1..Len(resp'[q].records) :
                    /\ resp'[q].records[n].user_id = user[q]
                    /\ resp'[q].records[n].id \notin foreign

C16_PullIsolation == [][C16_OwnerStep]_vars

\* u2 pulled while u1 held a changed row: one record, u2's own
C16_Witness ==
    \E q \in Procs :
        /\ pc[q] = "sent" /\ resp[q].status = HttpOk
        /\ user[q] = "u2"
        /\ \E i \in DOMAIN store :
              store[i].user_id = "u1" /\ store[i].updated_at > query[q].since
        /\ resp[q].total_count = 1
        /\ Len(resp[q].records) = 1
        /\ resp[q].records[1].user_id = "u2"

\* C17: a push step of owner A leaves every row owned by another owner as it
\* is: same version, payload and is_deleted, also when the item's
\* client_known_version equals the row's version.
C17_WriteStep ==
    \A p \in Procs :
        (TookItem(p) \/ DidFetch(p)) =>
            \A i \in DOMAIN store :
                store[i].user_id # user[p] =>
                    /\ i \in DOMAIN store'
                    /\ store'[i].version = store[i].version
                    /\ store'[i].encrypted_data = store[i].encrypted_data
                    /\ store'[i].nonce = store[i].nonce
                    /\ store'[i].is_deleted = store[i].is_deleted

C17_PushWriteIsolation == [][C17_WriteStep]_vars

\* C18: a conflict result handed to owner A for an id whose row belongs to
\* another owner attaches nothing of that row: no encrypted_data, nonce or
\* version of it.
C18_PushResultIsolation ==
    \A p \in Procs : \A k \in 1..Len(results[p]) :
        (/\ results[p][k].status = "conflict"
         /\ results[p][k].id \in DOMAIN store
         /\ store[results[p][k].id].user_id # user[p])
        => results[p][k].record = Null

\* connection p has just taken a step of a GET /sync request: validation,
\* the count read or the page read, answered or failed
PullStep(p) ==
    /\ pc'[p] # pc[p]
    /\ \/ pc[p] \in {"pull_count", "pull_page"}
       \/ pc'[p] = "pull_count"
       \/ pc[p] = "idle" /\ pc'[p] = "sent" /\ todo'[p] = 0

\* C19: no step of a pull, answered or failed, changes the table: every row
\* keeps its version, payload, is_deleted and updated_at, and no row comes or
\* goes.
C19_PullStep == \A p \in Procs : PullStep(p) => store' = store

C19_PullReadOnly == [][C19_PullStep]_vars

\* a pull was answered with the rows it found, and each of them is still
\* stored as it was returned
C19_Witness ==
    \E q \in Procs :
        /\ pc[q] = "sent" /\ resp[q].status = HttpOk
        /\ Len(resp[q].records) >= 1
        /\ \A n \in 1..Len(resp[q].records) :
              store[resp[q].records[n].id] = resp[q].records[n]

\* C20: a pull is answered with records and total_count together (status 200)
\* or with neither of them (a failure); a pull whose count read fails is
\* answered at once with the failure, the page is never read; a 200 answer
\* from offset 0 is not an empty stand-in for rows that are there.
C20_Answer ==
    \A p \in Procs :
        resp[p].status # 0 =>
            IF resp[p].status = HttpOk
            THEN {"records", "total_count"} \subseteq DOMAIN resp[p]
            ELSE {"records", "total_count"} \cap DOMAIN resp[p] = {}

C20_FailStep ==
    \A p \in Procs :
        /\ (pc[p] = "pull_count" /\ pc'[p] = "sent")
           => /\ resp'[p].status = HttpServerError
              /\ DOMAIN resp'[p] = {"status", "error"}
        /\ (pc[p] = "pull_page" /\ pc'[p] = "sent" /\ resp'[p].status # HttpOk)
           => /\ resp'[p].status = HttpServerError
              /\ DOMAIN resp'[p] = {"status", "error"}
        /\ (GotPage(p) /\ query[p].offset = 0
               /\ ChangedIds(user[p], query[p].since) # {})
           => resp'[p].records # <<>>

C20_AllOrNothing == []C20_Answer /\ [][C20_FailStep]_vars

\* a pull whose store read failed: status 500, an error and nothing else
C20_Witness ==
    \E p \in Procs :
        /\ pc[p] = "sent"
        /\ resp[p].status = HttpServerError
        /\ DOMAIN resp[p] = {"status", "error"}
        /\ ChangedIds(user[p], query[p].since) # {}

\* the since a client sends next after the answer q holds: the latest
\* updated_at it was handed, or the since it sent when it was handed nothing
Cursor(q) ==
    IF resp[q].records = <<>> THEN query[q].since
    ELSE CHOOSE m \in {resp[q].records[n].updated_at : n \in 1..Len(resp[q].records)} :
            \A n \in 1..Len(resp[q].records) : resp[q].records[n].updated_at <= m

\* C21: a change that a push of owner A commits after a pull of A was answered
\* in full (offset 0, no more pages) is stamped after that pull's cursor, so
\* that the next pull, sent with the advanced since, returns it.
C21_VisibleStep ==
    \A p, q \in Procs :
        (/\ p # q
         /\ TookItem(p) /\ store' # store
         /\ user[p] = user[q]
         /\ pc[q] = "sent" /\ resp[q].status = HttpOk
         /\ query[q].offset = 0 /\ ~resp[q].has_more)
        => store'[Last(batch'[p]).id].updated_at > Cursor(q)

C21_EventualVisibility == [][C21_VisibleStep]_vars

\* C22 (as stated): the record of a success result is the row's new state: it
\* carries the stored encrypted_data, nonce and is_deleted with the new version.
C22_SuccessCarriesRow ==
    \A p \in Procs : \A k \in 1..Len(results[p]) :
        results[p][k].status = "success" =>
            {"encrypted_data", "nonce", "is_deleted"} \subseteq DOMAIN results[p][k].record

\* C22 (amended): the record of a success result carries the id, a version
\* and a server_current_version and nothing else: no encrypted_data, nonce
\* or is_deleted; the record of a created result is the inserted row.
C22_ResultStep ==
    \A p \in Procs :
        /\ (GotResult(p) /\ Last(results'[p]).status = "success")
           => /\ DOMAIN Last(results'[p]).record = {"id", "version", "server_current_version"}
              /\ Last(results'[p]).record.id = Last(batch'[p]).id
        /\ (GotResult(p) /\ Last(results'[p]).status = "created")
           => Last(results'[p]).record = store'[Last(batch'[p]).id]

C22_SuccessRecord == [][C22_ResultStep]_vars

\* an update was applied: the success record has three fields, the row has
\* the pushed payload that the record does not show
C22_Witness ==
    \E p \in Procs :
        /\ Len(results[p]) = 1
        /\ results[p][1].status = "success"
        /\ results[p][1].record =
              [id |-> batch[p][1].id, version |-> 2, server_current_version |-> 2]
        /\ store[batch[p][1].id].encrypted_data = batch[p][1].encrypted_data

\* C23: no step of a push or a pull removes a row: an id that has a row has
\* one in the next state, whatever the item (is_deleted true included).
C23_KeepStep == \A i \in DOMAIN store : i \in DOMAIN store'

C23_NeverRemoved == [][C23_KeepStep]_vars

\* an item with is_deleted true was applied to r1 and a second row was
\* created: both rows are there
C23_Witness ==
    /\ DOMAIN store = {"r1", "r2"}
    /\ \E p \in Procs : \E k \in 1..Len(results[p]) :
          /\ results[p][k].status = "success"
          /\ batch[p][k].id = "r1"
          /\ batch[p][k].is_deleted

\* C24: an item gets conflict in the step of the read of its row and only
\* there: the read follows the write that failed (a step that took the item
\* and wrote nothing), it is one step, it writes nothing and ends with the
\* result; created and success come with the write itself, with no read.
C24_ReadStep ==
    \A p \in Procs :
        /\ GotResult(p) => (Last(results'[p]).status = "conflict" <=> DidFetch(p))
        /\ DidFetch(p) => GotResult(p) /\ store' = store /\ batch'[p] = batch[p]
        /\ (pc'[p] = "push_fetch" /\ pc[p] # "push_fetch")
           => TookItem(p) /\ store' = store /\ results'[p] = results[p]
        /\ (GotResult(p) /\ Last(results'[p]).status \in {"created", "success"})
           => TookItem(p) /\ pc'[p] = "push_loop"

C24_OneReadPerConflict == [][C24_ReadStep]_vars

\* one batch: the first item created its row with no read, the second, a
\* create of the same id, got conflict after the read
C24_Witness ==
    \E p \in Procs :
        /\ Len(results[p]) = 2
        /\ batch[p][1].id = batch[p][2].id
        /\ results[p][1].status = "created"
        /\ results[p][2].status = "conflict"
        /\ results[p][2].record # Null

\* C25: when the read for a conflict finds no row of the id, the item's result
\* is conflict with a null record, not error, and nothing is written.
C25_VanishedStep ==
    \A p \in Procs :
        (DidFetch(p) /\ Last(batch[p]).id \notin DOMAIN store)
        => /\ GotResult(p)
           /\ Last(results'[p]).id = Last(batch[p]).id
           /\ Last(results'[p]).status = "conflict"
           /\ Last(results'[p]).record = Null
           /\ store' = store

C25_ConflictOnAbsent == [][C25_VanishedStep]_vars

\* an update of an id that has no row was answered conflict with null
C25_Witness ==
    \E p \in Procs : \E k \in 1..Len(results[p]) :
        /\ batch[p][k].client_known_version >= 1
        /\ batch[p][k].id \notin DOMAIN store
        /\ results[p][k].status = "conflict"
        /\ results[p][k].record = Null

\* C26: the updated_at of a row never decreases; it is set when the row is
\* inserted, to the instant of the insert, it moves to a later value in every
\* step that raises the row's version, and it stays when the version stays.
C26_StampStep ==
    \A i \in DOMAIN store' :
        IF i \in DOMAIN store
        THEN /\ store'[i].updated_at >= store[i].updated_at
             /\ store'[i].version > store[i].version
                   => store'[i].updated_at > store[i].updated_at
             /\ store'[i].version = store[i].version
                   => store'[i].updated_at = store[i].updated_at
        ELSE /\ store'[i].updated_at = store'[i].created_at
             /\ store'[i].updated_at >= now

C27_InOrder ==
    \A p \in Procs : \A l \in 1..Len(results[p]) : \A k \in 1..(l - 1) :
        (batch[p][k].id = batch[p][l].id /\ Accepted(results[p][k])) =>
            /\ seen[p][l] >= results[p][k].record.version
            /\ (/\ results[p][k].status = "created"
                /\ batch[p][l].client_known_version = 1
                /\ seen[p][l] = 1)
               => /\ results[p][l].status = "success"
                  /\ results[p][l].record.version = 2
            /\ (/\ results[p][k].status = "success"
                /\ batch[p][l].client_known_version = batch[p][k].client_known_version)
               => results[p][l].status = "conflict"

C27_TakeStep ==
    \A p \in Procs : TookItem(p) => Len(results[p]) = Len(batch[p])

C27_Sequential == []C27_InOrder /\ [][C27_TakeStep]_vars

\* one batch on an absent r2: created, then success with version 2
C27_Witness ==
    \E p \in Procs :
        /\ Len(results[p]) = 2
        /\ batch[p][1].id = "r2" /\ batch[p][2].id = "r2"
        /\ batch[p][1].client_known_version = 0
        /\ batch[p][2].client_known_version = 1
        /\ results[p][1].status = "created"
        /\ results[p][2].status = "success"
        /\ results[p][2].record.version = 2

\* C28: an item whose client_known_version equals the version of a
\* soft-deleted row is applied like any other: success, the result and the row
\* at client_known_version + 1, the row holding the pushed payload.
C28_DeletedStep ==
    \A p \in Procs :
        (/\ TookItem(p)
         /\ Last(batch'[p]).client_known_version >= 1
         /\ Last(batch'[p]).id \in DOMAIN store
         /\ store[Last(batch'[p]).id].is_deleted
         /\ store[Last(batch'[p]).id].version = Last(batch'[p]).client_known_version)
        => /\ GotResult(p)
           /\ Last(results'[p]).status = "success"
           /\ Last(results'[p]).record.version = Last(batch'[p]).client_known_version + 1
           /\ store'[Last(batch'[p]).id].version = store[Last(batch'[p]).id].version + 1
           /\ store'[Last(batch'[p]).id].encrypted_data = Last(batch'[p]).encrypted_data

C28_WriteOverDeleted == [][C28_DeletedStep]_vars

\* a row created as soft-deleted took an update: version 2
C28_Witness ==
    \E p \in Procs : \E k \in 1..Len(results[p]) :
        /\ results[p][k].status = "success"
        /\ results[p][k].record.version = 2
        /\ store[batch[p][k].id].is_deleted
        /\ store[batch[p][k].id].version = 2
        /\ store[batch[p][k].id].encrypted_data = batch[p][k].encrypted_data

\* C29: a row that is soft-deleted stays soft-deleted in every step, whatever
\* item is pushed on it, an item with is_deleted false and the row's version
\* included.
C29_DeletedStep ==
    \A i \in DOMAIN store :
        store[i].is_deleted => i \in DOMAIN store' /\ store'[i].is_deleted

C30_CreateStep ==
    /\ \A p \in Procs :
          (/\ TookItem(p)
           /\ Last(batch'[p]).client_known_version >= 1
           /\ Last(batch'[p]).id \notin DOMAIN store)
          => store' = store
    /\ \A i \in DOMAIN store' \ DOMAIN store :
          \E p \in Procs :
              /\ TookItem(p)
              /\ Last(batch'[p]).id = i
              /\ Last(batch'[p]).client_known_version = 0

C30_CreatedOnlyByZero == [][C30_CreateStep]_vars

\* the write of an item with client_known_version >= 1 for an id without a
\* row is over: no row came of it
C30_Witness ==
    \E p \in Procs :
        /\ pc[p] = "push_fetch"
        /\ Last(batch[p]).client_known_version >= 1
        /\ Last(batch[p]).id \notin DOMAIN store

\* C31: no stored row is soft-deleted at version 1: a row enters the store
\* live, and is_deleted is true only from version 2 on.
C31_EntersLive ==
    \A i \in DOMAIN store : ~(store[i].is_deleted /\ store[i].version = 1)

\* C32 (as stated): when an item's result is conflict, the version the store
\* holds for the item's id is strictly greater than the item's
\* client_known_version.
C32_ConflictStepBehind ==
    \A p \in Procs :
        (GotResult(p) /\ Last(results'[p]).status = "conflict")
        => Version(store', Last(batch[p]).id) > Last(batch[p]).client_known_version

C33_DeleteStep ==
    \A p \in Procs :
        (pc[p] = "delete_update" /\ pc'[p] = "sent")
        => LET i == deleting[p].id IN
           IF store[i].version = deleting[p].clientKnownVersion
           THEN /\ store'[i].is_deleted
                /\ store'[i].version = store[i].version + 1
                /\ \A j \in DOMAIN store \ {i} : store'[j] = store[j]
           ELSE store' = store

C33_DeleteRespectsVersion == [][C33_DeleteStep]_vars

\* C34: no update is lost. In every state the row of an id holds the payload
\* of the accepted item that reported the row's current version; in every step
\* an accepted item leaves the row at the version it reports with its own
\* encrypted_data and nonce, and a row is created or changes version or payload
\* only in the step of an accepted item for its id.
C34_Current ==
    \A p \in Procs : \A k \in 1..Len(results[p]) :
        Accepted(results[p][k])
        => /\ batch[p][k].id \in DOMAIN store
           /\ results[p][k].record.version = store[batch[p][k].id].version
              => /\ store[batch[p][k].id].encrypted_data = batch[p][k].encrypted_data
                 /\ store[batch[p][k].id].nonce = batch[p][k].nonce

C34_WriteStep ==
    /\ \A p \in Procs :
          (TookItem(p) /\ GotResult(p) /\ Accepted(Last(results'[p])))
          => LET item == Last(batch'[p]) IN
             /\ item.id \in DOMAIN store'
             /\ store'[item.id].version = Last(results'[p]).record.version
             /\ store'[item.id].encrypted_data = item.encrypted_data
             /\ store'[item.id].nonce = item.nonce
    /\ \A i \in DOMAIN store' :
          (\/ i \notin DOMAIN store
           \/ store'[i].version # store[i].version
           \/ store'[i].encrypted_data # store[i].encrypted_data
           \/ store'[i].nonce # store[i].nonce)
          => \E p \in Procs :
                /\ TookItem(p) /\ GotResult(p) /\ Accepted(Last(results'[p]))
                /\ Last(batch'[p]).id = i

C34_NoLostUpdate == []C34_Current /\ [][C34_WriteStep]_vars

\* two connections pushed the same id with the same client_known_version; one
\* was accepted and its payload is the stored one, the other got conflict
C34_Witness ==
    \E p, q \in Procs : \E k \in 1..Len(results[p]), l \in 1..Len(results[q]) :
        /\ p # q
        /\ batch[p][k].id = batch[q][l].id
        /\ batch[p][k].client_known_version = batch[q][l].client_known_version
        /\ batch[p][k].client_known_version >= 1
        /\ results[p][k].status = "success"
        /\ results[q][l].status = "conflict"
        /\ store[batch[p][k].id].version = results[p][k].record.version
        /\ store[batch[p][k].id].encrypted_data = batch[p][k].encrypted_data
        /\ store[batch[p][k].id].nonce = batch[p][k].nonce
        /\ store[batch[p][k].id].encrypted_data # batch[q][l].encrypted_data

\* C35: of two items of different connections, in flight together, with
\* client_known_version 0 for the same id that had no row when the first of
\* them was written, exactly one is created and the other gets conflict; the
\* created result reports version 1 with the winner's payload, and the row,
\* while at version 1, holds the winner's payload.
C35_OneCreated ==
    \A p, q \in Procs : \A k \in 1..Len(results[p]), l \in 1..Len(results[q]) :
        (/\ p # q
         /\ batch[p][k].id = batch[q][l].id
         /\ batch[p][k].client_known_version = 0
         /\ batch[q][l].client_known_version = 0
         /\ seen[p][k] = 0)
        => /\ results[p][k].status = "created"
           /\ results[q][l].status = "conflict"
           /\ results[p][k].record.version = 1
           /\ results[p][k].record.encrypted_data = batch[p][k].encrypted_data
           /\ results[p][k].record.nonce = batch[p][k].nonce
           /\ batch[p][k].id \in DOMAIN store
           /\ store[batch[p][k].id].version = 1
              => /\ store[batch[p][k].id].encrypted_data = batch[p][k].encrypted_data
                 /\ store[batch[p][k].id].nonce = batch[p][k].nonce

\* both racing creations are settled: the loser was handed the winner's row
C35_Witness ==
    \E p, q \in Procs : \E k \in 1..Len(results[p]), l \in 1..Len(results[q]) :
        /\ p # q
        /\ batch[p][k].id = batch[q][l].id
        /\ batch[p][k].client_known_version = 0
        /\ batch[q][l].client_known_version = 0
        /\ seen[p][k] = 0
        /\ results[p][k].status = "created"
        /\ results[q][l].status = "conflict"
        /\ results[q][l].record # Null
        /\ results[q][l].record.encrypted_data = batch[p][k].encrypted_data
        /\ store[batch[p][k].id].version = 1
        /\ store[batch[p][k].id].encrypted_data = batch[p][k].encrypted_data
        /\ store[batch[p][k].id].encrypted_data # batch[q][l].encrypted_data

\* C36: every answered pull that hands out records has
\* offset + len(records) <= total_count, and its has_more is not false while
\* offset + len(records) exceeds total_count.
C36_CountCoversPage ==
    \A p \in Procs :
        (/\ pc[p] = "sent" /\ resp[p].status = HttpOk
         /\ "records" \in DOMAIN resp[p]
         /\ resp[p].records # <<>>)
        => /\ query[p].offset + Len(resp[p].records) <= resp[p].total_count
           /\ query[p].offset + Len(resp[p].records) > resp[p].total_count
              => resp[p].has_more

\* C37: a change that a push of owner A commits after a pull of A was answered
\* in full (offset 0, no more pages) is stamped after the server_time of that
\* answer, so that the next pull, sent with that server_time as since, returns
\* it.
C37_AfterServerTimeStep ==
    \A p, q \in Procs :
        (/\ p # q
         /\ TookItem(p) /\ store' # store
         /\ user[p] = user[q]
         /\ pc[q] = "sent" /\ resp[q].status = HttpOk
         /\ query[q].offset = 0 /\ ~resp[q].has_more)
        => store'[Last(batch'[p]).id].updated_at > resp[q].server_time

C37_ServerTimeCursor == [][C37_AfterServerTimeStep]_vars

C39_FrameStep ==
    \A p \in Procs :
        (TookItem(p) /\ GotResult(p) /\ Last(results'[p]).status = "success")
        => LET i == Last(batch'[p]).id IN
           /\ i \in DOMAIN store
           /\ DOMAIN store' = DOMAIN store
           /\ store'[i].id = store[i].id
           /\ store'[i].user_id = store[i].user_id
           /\ store'[i].record_type = store[i].record_type
           /\ store'[i].created_at = store[i].created_at
           /\ store'[i].client_record_id = store[i].client_record_id
           /\ \A j \in DOMAIN store \ {i} : store'[j] = store[j]

C39_UpdateFrame == [][C39_FrameStep]_vars

\* an update that carried another record_type than the row's was applied: the
\* row has the new payload and version, and the record_type it was created with
C39_Witness ==
    \E p \in Procs : \E k \in 1..Len(results[p]) :
        /\ results[p][k].status = "success"
        /\ store[batch[p][k].id].version = results[p][k].record.version
        /\ store[batch[p][k].id].encrypted_data = batch[p][k].encrypted_data
        /\ batch[p][k].record_type = "folder"
        /\ store[batch[p][k].id].record_type = "credential"
        /\ store[batch[p][k].id].updated_at > store[batch[p][k].id].created_at

====
